---------------------------- MODULE Spec2Model ----------------------------
(***************************************************************************)
(* A model of probe_generator/exon_coordinate.py (`sequence_range` and the *)
(* helpers it calls), of probe_generator/gene_snp_probe.py                 *)
(* (`GeneSnpProbe.explode`) and of `probe_statement.expand`.  Python       *)
(* values are modelled as follows.                                         *)
(*                                                                         *)
(*   - A dict is a record with a field `keys` holding the set of keys the  *)
(*     dict really has; a field whose key is not in `keys` is absent and   *)
(*     reading it with d[k] raises KeyError, with d.get(k) yields None.    *)
(*   - A string that the code takes apart (the chromosome name) is a       *)
(*     sequence of one-character strings; a string that the code only      *)
(*     compares is a TLA+ string.                                          *)
(*   - The `bases` field is either the glob '*' or a number: a record      *)
(*     [glob, n].                                                          *)
(*   - A call returns a record whose field `kind` is "ok" for a normal     *)
(*     return and the name of the exception class for a raise.             *)
(***************************************************************************)
EXTENDS Integers, Sequences, FiniteSets, TLC

VARIABLES specification, row_1, row_2, pc, result, stderr

\* GeneSnpProbe.explode: its arguments (the statement and the transcripts
\* that the annotation holds for the gene) and its local variables.
VARIABLES statement, transcripts, partial_spec, cached_coordinates, probes,
          txt_index

explode_vars ==
    <<statement, transcripts, partial_spec, cached_coordinates, probes,
      txt_index>>

\* probe_statement.expand: the feature counts given beside the specification.
VARIABLES feature_counts

range_vars == <<specification, row_1, row_2>>

vars == <<specification, row_1, row_2, pc, result, stderr, explode_vars,
          feature_counts>>

(***************************************************************************)
(* Bounds of the model.                                                    *)
(***************************************************************************)
MaxExons == 2
MaxBases == 2
MaxOffset == 1
MaxChromLen == 4
ExonLength == 100

MaxTranscripts == 3
MaxBase == 4
CdsLength == 3

MaxFeatureCount == 3
ExonStride == 2 * ExonLength

(***************************************************************************)
(* Python values.                                                          *)
(***************************************************************************)
None == "None"

WARNING_MESSAGE == "WARNING: probes generated using the '->' syntax may not have the expected value"

SpecKeys ==
    {"separator", "gene1", "feature1", "side1", "bases1",
     "gene2", "feature2", "side2", "bases2"}

RowKeys == {"chrom", "strand", "exons"}

Glob == [glob |-> TRUE, n |-> 0]

Number(b) == [glob |-> FALSE, n |-> b]

HasKey(d, k) == k \in d.keys

\* d.get(k) for a string-valued key
Get(d, k) == IF HasKey(d, k) THEN d[k] ELSE None

Raise(exception) == [kind |-> exception]

KeyError == Raise("KeyError")

InterfaceError == Raise("InterfaceError")

NoFeatureError(index, count) ==
    [kind |-> "NoFeatureError", number |-> index, length |-> count]

Return(value) == [kind |-> "ok", val |-> value]

Raised(r) == r.kind # "ok"

\* list[i] with Python's zero-based index i, negative indexes counting
\* from the end of the list
ListGetItem(list, i) ==
    IF 0 <= i /\ i < Len(list)
    THEN Return(list[i + 1])
    ELSE IF i < 0 /\ 0 - Len(list) <= i
         THEN Return(list[Len(list) + i + 1])
         ELSE Raise("IndexError")

RECURSIVE lstrip(_, _)
\* str.lstrip(chars): drop leading characters while they are in `chars`
lstrip(string, chars) ==
    IF string # <<>> /\ Head(string) \in chars
    THEN lstrip(Tail(string), chars)
    ELSE string

RECURSIVE Reversed(_)
Reversed(list) ==
    IF list = <<>> THEN <<>> ELSE Append(Reversed(Tail(list)), Head(list))

(***************************************************************************)
(* annotation.exons(row): the exons of the row in transcription order,     *)
(* i.e. in the order of the row for a '+' row and reversed for a '-' row.  *)
(***************************************************************************)
exons(row) ==
    IF row.strand = "-" THEN Reversed(row.exons) ELSE row.exons

(***************************************************************************)
(* exon_coordinate.py                                                      *)
(***************************************************************************)
\* Mutation of _is_leftmost_side: the strand is not looked at.
_is_leftmost_side_ignoring_strand(side, strand) ==
    side = "start"

_is_leftmost_side(side, strand) ==
    (side = "start") = (strand = "+")

_get_base_pair_range(bases, start, end, side, strand) ==
    IF _is_leftmost_side(side, strand)
    THEN <<start + 1, start + bases>>
    ELSE <<end - bases + 1, end>>

\* Mutation of _get_exon: the message reports the zero-based index.
_get_exon_reporting_list_index(positions, index) ==
    LET item == ListGetItem(positions, index - 1)
    IN  IF Raised(item)
        THEN NoFeatureError(index - 1, Len(positions))
        ELSE item

_get_exon(positions, index) ==
    LET item == ListGetItem(positions, index - 1)
    IN  IF Raised(item)
        THEN NoFeatureError(index, Len(positions))
        ELSE item

\* Mutation of _get_base_position_per_row: the glob range is made 1-based
\* like the numeric ranges.
_get_base_position_per_row_closing_glob(feature, bases, side, row) ==
    LET which_exon == feature[2]
    IN  IF ~HasKey(row, "strand")
        THEN InterfaceError
        ELSE LET exon == _get_exon(exons(row), which_exon)
             IN  IF Raised(exon)
                 THEN exon
                 ELSE IF bases.glob
                      THEN Return(<<exon.val[1] + 1, exon.val[2]>>)
                      ELSE Return(_get_base_pair_range(
                               bases.n, exon.val[1], exon.val[2],
                               side, row.strand))

_get_base_position_per_row(feature, bases, side, row) ==
    LET which_exon == feature[2]
    IN  IF ~HasKey(row, "strand")
        THEN InterfaceError
        ELSE LET exon == _get_exon(exons(row), which_exon)
             IN  IF Raised(exon)
                 THEN exon
                 ELSE IF bases.glob
                      THEN Return(exon.val)
                      ELSE Return(_get_base_pair_range(
                               bases.n, exon.val[1], exon.val[2],
                               side, row.strand))

_get_base_positions(spec, r1, r2) ==
    IF ~({"feature1", "bases1", "side1",
          "feature2", "bases2", "side2"} \subseteq spec.keys)
    THEN InterfaceError
    ELSE LET first == _get_base_position_per_row(
                          spec.feature1, spec.bases1, spec.side1, r1)
         IN  IF Raised(first)
             THEN first
             ELSE LET second == _get_base_position_per_row(
                                    spec.feature2, spec.bases2, spec.side2, r2)
                  IN  IF Raised(second)
                      THEN second
                      ELSE Return(<<first.val[1], first.val[2],
                                    second.val[1], second.val[2]>>)

_get_chromosomes(r1, r2) ==
    IF ~HasKey(r1, "chrom") \/ ~HasKey(r2, "chrom")
    THEN KeyError
    ELSE Return(<<lstrip(r1.chrom, {"c", "h", "r"}),
                  lstrip(r2.chrom, {"c", "h", "r"})>>)

\* Mutation of _get_rev_comp_flags: side 2 follows the rule of side 1.
_get_rev_comp_flags_same_rule(spec, r1, r2) ==
    IF ~HasKey(spec, "side1") \/ ~HasKey(spec, "side2")
       \/ ~HasKey(r1, "strand") \/ ~HasKey(r2, "strand")
    THEN KeyError
    ELSE Return(<<<<spec.side1, r1.strand>> \in {<<"start", "+">>, <<"end", "-">>},
                  <<spec.side2, r2.strand>> \in {<<"start", "+">>, <<"end", "-">>}>>)

_get_rev_comp_flags(spec, r1, r2) ==
    IF ~HasKey(spec, "side1") \/ ~HasKey(spec, "side2")
       \/ ~HasKey(r1, "strand") \/ ~HasKey(r2, "strand")
    THEN KeyError
    ELSE Return(<<<<spec.side1, r1.strand>> \in {<<"start", "+">>, <<"end", "-">>},
                  <<spec.side2, r2.strand>> \in {<<"start", "-">>, <<"end", "+">>}>>)

_positional_sequence_range(spec, r1, r2) ==
    LET chromosomes == _get_chromosomes(r1, r2)
    IN  IF Raised(chromosomes)
        THEN chromosomes
        ELSE LET positions == _get_base_positions(spec, r1, r2)
             IN  IF Raised(positions)
                 THEN positions
                 ELSE LET rc == _get_rev_comp_flags(spec, r1, r2)
                      IN  IF Raised(rc)
                          THEN rc
                          ELSE [kind        |-> "ok",
                                chromosome1 |-> chromosomes.val[1],
                                start1      |-> positions.val[1],
                                end1        |-> positions.val[2],
                                chromosome2 |-> chromosomes.val[2],
                                start2      |-> positions.val[3],
                                end2        |-> positions.val[4],
                                rc_side_1   |-> rc.val[1],
                                rc_side_2   |-> rc.val[2]]

\* Mutation of _check_read_through_spec: sides other than (end, start) are
\* an error.
_check_read_through_spec_strict(spec) ==
    IF ~HasKey(spec, "side1")
    THEN [raised |-> InterfaceError, printed |-> <<>>]
    ELSE IF spec.side1 = "end" /\ ~HasKey(spec, "side2")
         THEN [raised |-> InterfaceError, printed |-> <<>>]
         ELSE LET sides_ok == spec.side1 = "end" /\ spec.side2 = "start"
              IN  IF sides_ok
                  THEN [raised |-> Return(None), printed |-> <<>>]
                  ELSE [raised  |-> InterfaceError,
                        printed |-> <<WARNING_MESSAGE>>]

\* Returns the exception raised, if any, and what was printed to stderr.
_check_read_through_spec(spec) ==
    IF ~HasKey(spec, "side1")
    THEN [raised |-> InterfaceError, printed |-> <<>>]
    ELSE IF spec.side1 = "end" /\ ~HasKey(spec, "side2")
         THEN [raised |-> InterfaceError, printed |-> <<>>]
         ELSE LET sides_ok == spec.side1 = "end" /\ spec.side2 = "start"
              IN  [raised  |-> Return(None),
                   printed |-> IF sides_ok THEN <<>> ELSE <<WARNING_MESSAGE>>]

\* Mutation of _flip_specification: the sides are not exchanged.
_flip_specification_keeping_sides(spec) ==
    IF ~({"gene1", "gene2", "feature1", "feature2",
          "side1", "side2", "bases1", "bases2"} \subseteq spec.keys)
    THEN InterfaceError
    ELSE Return([keys      |-> spec.keys,
                 separator |-> spec.separator,
                 gene1     |-> spec.gene2,
                 gene2     |-> spec.gene1,
                 feature1  |-> spec.feature2,
                 feature2  |-> spec.feature1,
                 side1     |-> spec.side1,
                 side2     |-> spec.side2,
                 bases1    |-> spec.bases2,
                 bases2    |-> spec.bases1])

_flip_specification(spec) ==
    IF ~({"gene1", "gene2", "feature1", "feature2",
          "side1", "side2", "bases1", "bases2"} \subseteq spec.keys)
    THEN InterfaceError
    ELSE Return([keys      |-> spec.keys,
                 separator |-> spec.separator,
                 gene1     |-> spec.gene2,
                 gene2     |-> spec.gene1,
                 feature1  |-> spec.feature2,
                 feature2  |-> spec.feature1,
                 side1     |-> spec.side2,
                 side2     |-> spec.side1,
                 bases1    |-> spec.bases2,
                 bases2    |-> spec.bases1])

\* Lines 78-89: the strand dispatch that follows the check of the sides.
_read_through_dispatch(spec, r1, r2) ==
    IF Get(r1, "strand") = "+"
    THEN _positional_sequence_range(spec, r1, r2)
    ELSE IF Get(r1, "strand") = "-"
         THEN LET flipped == _flip_specification(spec)
              IN  IF Raised(flipped)
                  THEN flipped
                  ELSE _positional_sequence_range(flipped.val, r2, r1)
         ELSE InterfaceError

\* Returns the record or exception, and what was printed to stderr.
_read_through_sequence_range(spec, r1, r2) ==
    LET check == _check_read_through_spec(spec)
    IN  IF Raised(check.raised)
        THEN [value |-> check.raised, printed |-> check.printed]
        ELSE [value   |-> _read_through_dispatch(spec, r1, r2),
              printed |-> check.printed]

\* Mutation of sequence_range: every separator but '->' is positional.
sequence_range_positional_by_default(spec, r1, r2) ==
    IF Get(spec, "separator") = "->"
    THEN _read_through_sequence_range(spec, r1, r2)
    ELSE [value   |-> _positional_sequence_range(spec, r1, r2),
          printed |-> <<>>]

sequence_range(spec, r1, r2) ==
    IF Get(spec, "separator") = "/"
    THEN [value   |-> _positional_sequence_range(spec, r1, r2),
          printed |-> <<>>]
    ELSE IF Get(spec, "separator") = "->"
         THEN _read_through_sequence_range(spec, r1, r2)
         ELSE [value |-> InterfaceError, printed |-> <<>>]

(***************************************************************************)
(* The inputs of a call.                                                   *)
(***************************************************************************)
Sides == {"start", "end"}

Strands == {"+", "-"}

BasesValues == {Glob} \cup {Number(b) : b \in 1..MaxBases}

Chromosome1 == <<"c", "h", "r", "1">>

Chromosome2 == <<"X">>

ExonList(n, offset) ==
    [k \in 1..n |-> <<offset + (k - 1) * ExonStride,
                      offset + (k - 1) * ExonStride + ExonLength>>]

Specifications(keysets, separators, indexes, sides, bases) ==
    {[keys      |-> ks,
      separator |-> sep,
      gene1     |-> "FOO",
      feature1  |-> <<"exon", i1>>,
      side1     |-> s1,
      bases1    |-> b1,
      gene2     |-> "BAR",
      feature2  |-> <<"exon", i2>>,
      side2     |-> s2,
      bases2    |-> b2] :
        ks \in keysets, sep \in separators, i1 \in indexes, i2 \in indexes,
        s1 \in sides, s2 \in sides, b1 \in bases, b2 \in bases}

Rows(keysets, chroms, strands, counts, offsets) ==
    {[keys   |-> ks,
      chrom  |-> c,
      strand |-> s,
      exons  |-> ExonList(n, o)] :
        ks \in keysets, c \in chroms, s \in strands, n \in counts,
        o \in offsets}

\* GeneSnpProbe.explode is not running.
NoExplode ==
    /\ statement = None
    /\ transcripts = <<>>
    /\ partial_spec = None
    /\ cached_coordinates = {}
    /\ probes = <<>>
    /\ txt_index = 0

Start ==
    /\ pc = "call"
    /\ result = Return(None)
    /\ stderr = <<>>
    /\ NoExplode
    /\ feature_counts = None

\* Concrete specifications and rows that have every field; the strand of a
\* row may be a string other than '+' and '-'.
Init ==
    /\ specification \in Specifications({SpecKeys}, {"/", "->"},
                                        1..(MaxExons + 1), Sides, BasesValues)
    /\ row_1 \in Rows({RowKeys}, {Chromosome1}, Strands \cup {"."},
                      1..MaxExons, 0..MaxOffset)
    /\ row_2 \in Rows({RowKeys}, {Chromosome2}, Strands \cup {"."},
                      1..MaxExons, 0..MaxOffset)
    /\ Start

(***************************************************************************)
(* One call of sequence_range(specification, row_1, row_2).                *)
(***************************************************************************)
SequenceRange ==
    /\ pc = "call"
    /\ LET out == sequence_range(specification, row_1, row_2)
       IN  /\ result' = out.value
           /\ stderr' = stderr \o out.printed
    /\ pc' = "done"
    /\ UNCHANGED <<specification, row_1, row_2, explode_vars, feature_counts>>

Next == SequenceRange

Spec == Init /\ [][Next]_vars


(***************************************************************************)
(* Further sets of inputs, each with the same call.                        *)
(***************************************************************************)
RECURSIVE Strings(_, _)
\* The strings over `alphabet` of length at most n
Strings(alphabet, n) ==
    IF n = 0
    THEN {<<>>}
    ELSE LET shorter == Strings(alphabet, n - 1)
         IN  shorter \cup {<<c>> \o t : c \in alphabet, t \in shorter}

ChromAlphabet == {"c", "h", "r", "1"}

\* Feature indexes of every sign, rows with no exon included.
InitIndex ==
    /\ specification \in Specifications({SpecKeys}, {"/", "->"},
                                        (0 - MaxExons - 1)..(MaxExons + 1),
                                        {"start"}, {Glob, Number(MaxBases)})
    /\ row_1 \in Rows({RowKeys}, {Chromosome1}, Strands, 0..MaxExons, {0})
    /\ row_2 \in Rows({RowKeys}, {Chromosome2}, Strands, 0..MaxExons, {0})
    /\ Start

SpecIndex == InitIndex /\ [][Next]_vars

\* Every chromosome name of at most MaxChromLen characters for row_1.
InitChrom ==
    /\ specification \in Specifications({SpecKeys}, {"/", "->"}, {1},
                                        Sides, {Glob})
    /\ row_1 \in Rows({RowKeys}, Strings(ChromAlphabet, MaxChromLen), Strands,
                      {1}, {0})
    /\ row_2 \in Rows({RowKeys}, {Chromosome1, Chromosome2}, Strands, {1}, {0})
    /\ Start

SpecChrom == InitChrom /\ [][Next]_vars

\* Specifications with any subset of their keys, and a separator that may be
\* neither '/' nor '->'; rows that have every field and a strand '+' or '-'.
InitFields ==
    /\ specification \in Specifications(SUBSET SpecKeys, {"/", "->", "|"},
                                        1..(MaxExons + 1), Sides,
                                        {Number(MaxBases)})
    /\ row_1 \in Rows({RowKeys}, {Chromosome1}, Strands, {MaxExons}, {0})
    /\ row_2 \in Rows({RowKeys}, {Chromosome2}, Strands, {MaxExons}, {0})
    /\ Start

SpecFields == InitFields /\ [][Next]_vars

\* Rows that may lack the chromosome or the strand field.
InitRows ==
    /\ specification \in Specifications({SpecKeys}, {"/", "->"},
                                        1..(MaxExons + 1), Sides,
                                        {Number(MaxBases)})
    /\ row_1 \in Rows({ks \cup {"exons"} : ks \in SUBSET {"chrom", "strand"}},
                      {Chromosome1}, Strands, {MaxExons}, {0})
    /\ row_2 \in Rows({ks \cup {"exons"} : ks \in SUBSET {"chrom", "strand"}},
                      {Chromosome2}, Strands, {MaxExons}, {0})
    /\ Start

SpecRows == InitRows /\ [][Next]_vars

(***************************************************************************)
(* gene_snp_probe.py                                                       *)
(***************************************************************************)
\* sequence.reverse_complement of a one-base string: the complementary
\* base, in the same case.
reverse_complement(base) ==
    CASE base = "A" -> "T"
      [] base = "T" -> "A"
      [] base = "C" -> "G"
      [] base = "G" -> "C"
      [] base = "a" -> "t"
      [] base = "t" -> "a"
      [] base = "c" -> "g"
      [] base = "g" -> "c"
      [] OTHER -> base

\* Transcript.nucleotide_index(base): the genomic index of the base-th
\* coding nucleotide, counted along the strand of the transcript;
\* transcript.OutOfRange when the transcript has no such nucleotide.
nucleotide_index(txt, base) ==
    IF base < 1 \/ base > txt.length
    THEN Raise("OutOfRange")
    ELSE Return(IF txt.plus_strand
                THEN txt.cds_start + base
                ELSE txt.cds_start - base)

\* The statement is held as the groups the statement regex captures.
_parse(groups) ==
    [gene      |-> groups[1],
     base      |-> groups[2],
     reference |-> groups[3],
     mutation  |-> groups[4],
     bases     |-> groups[5],
     comment   |-> groups[6]]

\* GeneSnpProbe(dict(partial_spec, chromosome=..., transcript=..., index=...))
GeneSnpProbe(spec, chromosome, name, index) ==
    [gene       |-> spec.gene,
     base       |-> spec.base,
     reference  |-> spec.reference,
     mutation   |-> spec.mutation,
     bases      |-> spec.bases,
     comment    |-> spec.comment,
     chromosome |-> chromosome,
     transcript |-> name,
     index      |-> index]

OutOfRangeMessage(stmt) == <<"OutOfRange in statement", stmt>>

\* Mutation of explode_iteration: the coordinates are not cached.
explode_iteration_without_cache(loop, txt, stmt) ==
    LET base  == IF txt.plus_strand
                 THEN loop.partial_spec.base
                 ELSE loop.partial_spec.base - 2
        spec  == IF txt.plus_strand
                 THEN loop.partial_spec
                 ELSE [loop.partial_spec EXCEPT
                           !.mutation = reverse_complement(@)]
        index == nucleotide_index(txt, base)
    IN  IF Raised(index)
        THEN [partial_spec       |-> spec,
              cached_coordinates |-> loop.cached_coordinates,
              probes             |-> loop.probes,
              printed            |-> <<OutOfRangeMessage(stmt)>>]
        ELSE [partial_spec       |-> spec,
              cached_coordinates |-> loop.cached_coordinates,
              probes             |-> Append(loop.probes,
                                            GeneSnpProbe(spec, txt.chromosome,
                                                         txt.name, index.val)),
              printed            |-> <<>>]

\* Lines 65-84: the body of the loop over the transcripts, for one
\* transcript.  `loop` holds the local variables the body reads and writes.
explode_iteration(loop, txt, stmt) ==
    LET base  == IF txt.plus_strand
                 THEN loop.partial_spec.base
                 ELSE loop.partial_spec.base - 2
        spec  == IF txt.plus_strand
                 THEN loop.partial_spec
                 ELSE [loop.partial_spec EXCEPT
                           !.mutation = reverse_complement(@)]
        index == nucleotide_index(txt, base)
    IN  IF Raised(index)
        THEN [partial_spec       |-> spec,
              cached_coordinates |-> loop.cached_coordinates,
              probes             |-> loop.probes,
              printed            |-> <<OutOfRangeMessage(stmt)>>]
        ELSE IF <<txt.chromosome, index.val>> \in loop.cached_coordinates
             THEN [partial_spec       |-> spec,
                   cached_coordinates |-> loop.cached_coordinates,
                   probes             |-> loop.probes,
                   printed            |-> <<>>]
             ELSE [partial_spec       |-> spec,
                   cached_coordinates |-> loop.cached_coordinates
                                              \cup {<<txt.chromosome, index.val>>},
                   probes             |-> Append(loop.probes,
                                                 GeneSnpProbe(spec, txt.chromosome,
                                                              txt.name, index.val)),
                   printed            |-> <<>>]

MutationBases == {"A", "C", "G", "T"}

CdsStarts == {10, 11}

TranscriptName(k) == <<"NM", k>>

TranscriptShapes ==
    [plus_strand : BOOLEAN, chromosome : {"1", "2"}, cds_start : CdsStarts]

\* The transcripts annotation.lookup_gene returns for the gene: at most
\* MaxTranscripts of them, each with its own name.
TranscriptLists ==
    UNION {{[k \in 1..n |->
                [name        |-> TranscriptName(k),
                 plus_strand |-> shape[k].plus_strand,
                 chromosome  |-> shape[k].chromosome,
                 cds_start   |-> shape[k].cds_start,
                 length      |-> CdsLength]] :
            shape \in [1..n -> TranscriptShapes]} : n \in 0..MaxTranscripts}

Statements ==
    {<<"ABC", b, "A", m, 25, "">> : b \in 1..MaxBase, m \in MutationBases}

InitExplode ==
    /\ statement \in Statements
    /\ transcripts \in TranscriptLists
    /\ partial_spec = None
    /\ cached_coordinates = {}
    /\ probes = <<>>
    /\ txt_index = 0
    /\ pc = "call"
    /\ result = Return(None)
    /\ stderr = <<>>
    /\ specification = None
    /\ row_1 = None
    /\ row_2 = None
    /\ feature_counts = None

\* Lines 56-63: up to the loop.
ExplodeBegin ==
    /\ pc = "call"
    /\ probes' = <<>>
    /\ partial_spec' = _parse(statement)
    /\ cached_coordinates' = {}
    /\ txt_index' = 1
    /\ pc' = "loop"
    /\ UNCHANGED <<statement, transcripts, result, stderr, range_vars,
                   feature_counts>>

\* Lines 64-84: the next transcript of the list.
ExplodeTranscript ==
    /\ pc = "loop"
    /\ txt_index <= Len(transcripts)
    /\ LET loop == explode_iteration(
                       [partial_spec       |-> partial_spec,
                        cached_coordinates |-> cached_coordinates,
                        probes             |-> probes],
                       transcripts[txt_index], statement)
       IN  /\ partial_spec' = loop.partial_spec
           /\ cached_coordinates' = loop.cached_coordinates
           /\ probes' = loop.probes
           /\ stderr' = stderr \o loop.printed
    /\ txt_index' = txt_index + 1
    /\ UNCHANGED <<statement, transcripts, pc, result, range_vars,
                   feature_counts>>

\* Line 85: the list is exhausted.
ExplodeReturn ==
    /\ pc = "loop"
    /\ txt_index > Len(transcripts)
    /\ result' = Return(probes)
    /\ pc' = "done"
    /\ UNCHANGED <<explode_vars, stderr, range_vars, feature_counts>>

NextExplode == ExplodeBegin \/ ExplodeTranscript \/ ExplodeReturn

SpecExplode == InitExplode /\ [][NextExplode]_vars

(***************************************************************************)
(* probe_statement.expand(specification, left_features, right_features).   *)
(* The index of a feature is here a record like the bases field: the glob  *)
(* '*' or a number.  A feature count is None (not given) or a number.      *)
(***************************************************************************)
NotGiven == [given |-> FALSE, n |-> 0]

Given(count) == [given |-> TRUE, n |-> count]

ExpandError == Raise("ExpandError")

_expand_sides(side) ==
    IF side = "*" THEN <<"start", "end">> ELSE <<side>>

\* Mutation of _expand_features: the count itself is left out, as with
\* range(1, count).
_expand_features_exclusive(feature, count) ==
    IF feature[2].glob
    THEN IF ~count.given
         THEN ExpandError
         ELSE Return([i \in 1..(count.n - 1) |-> <<feature[1], Number(i)>>])
    ELSE Return(<<feature>>)

_expand_features(feature, count) ==
    IF feature[2].glob
    THEN IF ~count.given
         THEN ExpandError
         ELSE Return([i \in 1..count.n |-> <<feature[1], Number(i)>>])
    ELSE Return(<<feature>>)

\* itertools.product of four lists, the last one varying fastest.
Product4(a, b, c, d) ==
    [k \in 1..(Len(a) * Len(b) * Len(c) * Len(d)) |->
        <<a[(((k - 1) \div (Len(b) * Len(c) * Len(d))) % Len(a)) + 1],
          b[(((k - 1) \div (Len(c) * Len(d))) % Len(b)) + 1],
          c[(((k - 1) \div Len(d)) % Len(c)) + 1],
          d[((k - 1) % Len(d)) + 1]>>]

\* Returns what the generator yields, or the exception it raises, and the
\* specification as it is after the iteration.
expand(spec, left_features, right_features) ==
    LET features1 == _expand_features(spec.feature1, left_features)
        features2 == _expand_features(spec.feature2, right_features)
    IN  IF Raised(features1) \/ Raised(features2)
        THEN [value |-> ExpandError, specification |-> spec]
        ELSE LET combinations == Product4(_expand_sides(spec.side1),
                                          _expand_sides(spec.side2),
                                          features1.val, features2.val)
             IN  [value |->
                      Return([k \in 1..Len(combinations) |->
                                 [spec EXCEPT
                                      !.side1 = combinations[k][1],
                                      !.side2 = combinations[k][2],
                                      !.feature1 = combinations[k][3],
                                      !.feature2 = combinations[k][4]]]),
                  specification |-> spec]

FeatureCounts == {NotGiven} \cup {Given(n) : n \in 0..MaxFeatureCount}

InitExpand ==
    /\ specification \in Specifications(
           {SpecKeys}, {"/"}, {Glob} \cup {Number(i) : i \in 1..MaxExons},
           Sides \cup {"*"}, {Number(MaxBases)})
    /\ feature_counts \in FeatureCounts \X FeatureCounts
    /\ row_1 = None
    /\ row_2 = None
    /\ pc = "call"
    /\ result = Return(None)
    /\ stderr = <<>>
    /\ NoExplode

\* One call of expand, iterated to its end.
Expand ==
    /\ pc = "call"
    /\ LET out == expand(specification, feature_counts[1], feature_counts[2])
       IN  /\ result' = out.value
           /\ specification' = out.specification
    /\ pc' = "done"
    /\ UNCHANGED <<row_1, row_2, stderr, explode_vars, feature_counts>>

NextExpand == Expand

SpecExpand == InitExpand /\ [][NextExpand]_vars

(***************************************************************************)
(* Vocabulary of the properties.                                           *)
(***************************************************************************)
Done == pc = "done"

Positional == Done /\ Get(specification, "separator") = "/"

ReadThrough == Done /\ Get(specification, "separator") = "->"

Ok == result.kind = "ok"

Count(row) == Len(row.exons)

\* The i-th exon of the row in transcription order, for i in 1..Count(row):
\* a '-' row lists its exons from the last transcribed to the first.
TranscribedExon(row, i) ==
    IF row.strand = "-" THEN row.exons[Count(row) + 1 - i] ELSE row.exons[i]

Leftmost(exon, bases) == <<exon[1] + 1, exon[1] + bases>>

Rightmost(exon, bases) == <<exon[2] - bases + 1, exon[2]>>

ExpectedRange(side, strand, bases, exon) ==
    CASE side = "start" /\ strand = "+" -> Leftmost(exon, bases)
      [] side = "end"   /\ strand = "-" -> Leftmost(exon, bases)
      [] side = "start" /\ strand = "-" -> Rightmost(exon, bases)
      [] side = "end"   /\ strand = "+" -> Rightmost(exon, bases)

\* C1: after a positional resolution that returned a record, each side whose
\* bases field is a number and whose row is on strand '+' or '-' has the
\* range (exon_start + 1, exon_start + bases) when the side is 'start' on '+'
\* or 'end' on '-', and (exon_end - bases + 1, exon_end) otherwise, where
\* the exon is the one the feature index selects.
C1_PerSideRange ==
    (Positional /\ Ok) =>
        /\ (~specification.bases1.glob /\ row_1.strand \in Strands) =>
               <<result.start1, result.end1>> =
                   ExpectedRange(specification.side1, row_1.strand,
                                 specification.bases1.n,
                                 TranscribedExon(row_1, specification.feature1[2]))
        /\ (~specification.bases2.glob /\ row_2.strand \in Strands) =>
               <<result.start2, result.end2>> =
                   ExpectedRange(specification.side2, row_2.strand,
                                 specification.bases2.n,
                                 TranscribedExon(row_2, specification.feature2[2]))

\* 'start' on a '-' row with two bases: the two rightmost bases of the exon.
C1_Witness ==
    /\ Positional /\ Ok
    /\ row_1.strand = "-"
    /\ specification.side1 = "start"
    /\ specification.bases1 = Number(2)
    /\ specification.feature1[2] = 1
    /\ Count(row_1) = 2
    /\ result.start1 = row_1.exons[2][2] - 1
    /\ result.end1 = row_1.exons[2][2]

\* C2: in the record of a positional resolution, rc_side_1 is true exactly
\* for (start, +) and (end, -) of side 1 and row 1, and rc_side_2 is true
\* exactly for (start, -) and (end, +) of side 2 and row 2.
C2_RevCompFlags ==
    (Positional /\ Ok) =>
        /\ result.rc_side_1 =
               (\/ specification.side1 = "start" /\ row_1.strand = "+"
                \/ specification.side1 = "end" /\ row_1.strand = "-")
        /\ result.rc_side_2 =
               (\/ specification.side2 = "start" /\ row_2.strand = "-"
                \/ specification.side2 = "end" /\ row_2.strand = "+")

C2_Witness ==
    /\ Positional /\ Ok
    /\ specification.side1 = "end" /\ row_1.strand = "-"
    /\ specification.side2 = "end" /\ row_2.strand = "-"
    /\ result.rc_side_1
    /\ ~result.rc_side_2

\* C7: when the bases field of a side is the glob '*', the range of that
\* side is the selected exon's own (exon_start, exon_end) pair, with no + 1
\* on the start, whatever the side and the strand.
C7_GlobBases ==
    (Positional /\ Ok) =>
        /\ specification.bases1.glob =>
               <<result.start1, result.end1>> =
                   TranscribedExon(row_1, specification.feature1[2])
        /\ specification.bases2.glob =>
               <<result.start2, result.end2>> =
                   TranscribedExon(row_2, specification.feature2[2])

\* The exon (0, ExonLength) resolved with bases '*' gives (0, ExonLength).
C7_Witness ==
    /\ Positional /\ Ok
    /\ specification.bases1.glob
    /\ specification.feature1[2] = 1
    /\ row_1.strand = "+"
    /\ row_1.exons[1] = <<0, ExonLength>>
    /\ result.start1 = 0
    /\ result.end1 = ExonLength

\* The specification with the gene, feature, side and bases fields of side 1
\* and side 2 exchanged.
Exchanged(spec) ==
    [spec EXCEPT !.gene1 = spec.gene2, !.gene2 = spec.gene1,
                 !.feature1 = spec.feature2, !.feature2 = spec.feature1,
                 !.side1 = spec.side2, !.side2 = spec.side1,
                 !.bases1 = spec.bases2, !.bases2 = spec.bases1]

\* C3: for a specification with separator '->', the result of sequence_range
\* is that of positional resolution of (specification, row_1, row_2) when
\* row_1 is on strand '+', that of positional resolution of (the
\* specification with sides 1 and 2 exchanged, row_2, row_1) when row_1 is on
\* strand '-', and InterfaceError for any other strand of row_1.
C3_ReadThroughEquivalence ==
    ReadThrough =>
        CASE row_1.strand = "+" ->
                 result = _positional_sequence_range(specification, row_1, row_2)
          [] row_1.strand = "-" ->
                 result = _positional_sequence_range(
                              Exchanged(specification), row_2, row_1)
          [] OTHER -> result = InterfaceError

\* A '-' row 1: the record's side 1 is row_2's side (its chromosome, the
\* leftmost bases of its exon for side2 = 'start' on '+').
C3_Witness ==
    /\ ReadThrough /\ Ok
    /\ row_1.strand = "-" /\ row_2.strand = "+"
    /\ specification.side1 = "end" /\ specification.side2 = "start"
    /\ specification.bases1 = Number(1) /\ specification.bases2 = Number(2)
    /\ result.chromosome1 = Chromosome2
    /\ result.chromosome2 = <<"1">>
    /\ result.end1 - result.start1 = 1
    /\ result.end2 = result.start2

OutOfRange1 == specification.feature1[2] > Count(row_1)

OutOfRange2 == specification.feature2[2] > Count(row_2)

\* C4: with rows on strand '+' or '-', a feature index greater than the
\* number of exons of its row makes resolution fail with NoFeatureError,
\* which carries the requested index and the exon count of that row, and no
\* record is returned.
C4_OutOfRangeFeature ==
    (/\ Done
     /\ row_1.strand \in Strands /\ row_2.strand \in Strands
     /\ OutOfRange1 \/ OutOfRange2) =>
        /\ result.kind = "NoFeatureError"
        /\ \/ /\ OutOfRange1
              /\ result.number = specification.feature1[2]
              /\ result.length = Count(row_1)
           \/ /\ OutOfRange2
              /\ result.number = specification.feature2[2]
              /\ result.length = Count(row_2)

\* Exon 3 of a row with 2 exons: number 3, length 2.
C4_Witness ==
    /\ Positional
    /\ specification.feature1[2] = 3
    /\ Count(row_1) = 2
    /\ result = NoFeatureError(3, 2)

SidesOk == specification.side1 = "end" /\ specification.side2 = "start"

\* C10: for a read-through specification, the warning is written to stderr
\* exactly when the sides are not (end, start); the result is the one the
\* strand dispatch computes for these sides, so the warning does not become
\* a failure: with rows on '+' or '-' and feature indexes in range a record
\* is returned, warning or not.
C10_WarningOnly ==
    ReadThrough =>
        /\ stderr = (IF SidesOk THEN <<>> ELSE <<WARNING_MESSAGE>>)
        /\ result = _read_through_dispatch(specification, row_1, row_2)
        /\ (/\ row_1.strand \in Strands /\ row_2.strand \in Strands
            /\ ~OutOfRange1 /\ ~OutOfRange2) => Ok

C10_Witness ==
    /\ ReadThrough /\ Ok
    /\ specification.side1 = "start" /\ specification.side2 = "start"
    /\ stderr = <<WARNING_MESSAGE>>
    /\ result.kind = "ok"

IndexInRange(row, i) == i \in 1..Count(row)

\* C5: exon lookup is 1-based: with rows on '+' or '-', a feature index
\* outside 1..n, zero and negative indexes included, fails with
\* NoFeatureError, and indexes within 1..n select the exons of that rank in
\* transcription order.
C5_OneBasedLookup ==
    Positional =>
        /\ ~IndexInRange(row_1, specification.feature1[2]) =>
               result = NoFeatureError(specification.feature1[2], Count(row_1))
        /\ (/\ IndexInRange(row_1, specification.feature1[2])
            /\ ~IndexInRange(row_2, specification.feature2[2])) =>
               result = NoFeatureError(specification.feature2[2], Count(row_2))
        /\ (/\ IndexInRange(row_1, specification.feature1[2])
            /\ IndexInRange(row_2, specification.feature2[2])
            /\ specification.bases1.glob /\ specification.bases2.glob) =>
               /\ Ok
               /\ <<result.start1, result.end1>> =
                      TranscribedExon(row_1, specification.feature1[2])
               /\ <<result.start2, result.end2>> =
                      TranscribedExon(row_2, specification.feature2[2])

\* The chromosome name without one leading 'chr', when it starts with 'chr'.
WithoutChrPrefix(chrom) ==
    IF Len(chrom) >= 3 /\ SubSeq(chrom, 1, 3) = <<"c", "h", "r">>
    THEN SubSeq(chrom, 4, Len(chrom))
    ELSE chrom

\* C6: the chromosome names of the record are those of the rows with one
\* leading 'chr' removed when the name starts with 'chr', and unchanged
\* otherwise.
C6_ChrPrefixStripped ==
    (Positional /\ Ok) =>
        /\ result.chromosome1 = WithoutChrPrefix(row_1.chrom)
        /\ result.chromosome2 = WithoutChrPrefix(row_2.chrom)

RequiredFields ==
    {"feature1", "side1", "bases1", "feature2", "side2", "bases2"}

\* C8: given rows that have every field, sequence_range raises
\* InterfaceError, and returns no record, whenever the separator is absent
\* or is neither '/' nor '->', or one of feature1, side1, bases1, feature2,
\* side2, bases2 is absent, whichever the strategy.
C8_MalformedSpecification ==
    (/\ Done
     /\ \/ ~HasKey(specification, "separator")
        \/ specification.separator \notin {"/", "->"}
        \/ ~(RequiredFields \subseteq specification.keys)) =>
        result = InterfaceError

\* Read-through, row_1 on '-', only bases2 absent.
C8_Witness ==
    /\ ReadThrough
    /\ row_1.strand = "-"
    /\ specification.keys = SpecKeys \ {"bases2"}
    /\ result = InterfaceError

\* C9: sequence_range raises InterfaceError, and no other exception,
\* whenever a row lacks the chromosome field or the strand field, for both
\* separators.
C9_MalformedRow ==
    (/\ Done
     /\ \/ ~HasKey(row_1, "chrom") \/ ~HasKey(row_1, "strand")
        \/ ~HasKey(row_2, "chrom") \/ ~HasKey(row_2, "strand")) =>
        result = InterfaceError

\* The base explode asks the k-th transcript for.
AskedBase(k) ==
    IF transcripts[k].plus_strand THEN statement[2] ELSE statement[2] - 2

InRangeAt(k) == ~Raised(nucleotide_index(transcripts[k], AskedBase(k)))

CoordinateAt(k) ==
    <<transcripts[k].chromosome,
      nucleotide_index(transcripts[k], AskedBase(k)).val>>

\* The transcripts that are the first, in lookup order, to produce their
\* (chromosome, index) pair.
FirstOfPair ==
    {k \in 1..Len(transcripts) :
        /\ InRangeAt(k)
        /\ \A j \in 1..(k - 1) : InRangeAt(j) => CoordinateAt(j) # CoordinateAt(k)}

\* C11: explode goes through every transcript in lookup order; a transcript
\* whose nucleotide_index raises OutOfRange is logged, gives no probe and
\* does not stop the loop; the probes returned are, in transcript order, one
\* per distinct (chromosome, index) pair, built from the first transcript
\* that produced the pair.
C11_ExplodeFirstPerCoordinate ==
    (pc = "done") =>
        /\ txt_index = Len(transcripts) + 1
        /\ Len(stderr) =
               Cardinality({k \in 1..Len(transcripts) : ~InRangeAt(k)})
        /\ result.kind = "ok"
        /\ Len(result.val) = Cardinality(FirstOfPair)
        /\ \A i \in 1..Len(result.val) :
               \E k \in FirstOfPair :
                   /\ Cardinality({j \in FirstOfPair : j < k}) = i - 1
                   /\ result.val[i].transcript = transcripts[k].name
                   /\ result.val[i].chromosome = CoordinateAt(k)[1]
                   /\ result.val[i].index = CoordinateAt(k)[2]

\* Three transcripts: the first out of range, the second kept, the third a
\* duplicate of the second.
C11_Witness ==
    /\ pc = "done"
    /\ Len(transcripts) = 3
    /\ ~InRangeAt(1)
    /\ InRangeAt(2) /\ InRangeAt(3)
    /\ CoordinateAt(2) = CoordinateAt(3)
    /\ Len(result.val) = 1
    /\ result.val[1].transcript = TranscriptName(2)

\* C13: whatever the strands of the transcripts processed before it, a
\* probe built from a plus-strand transcript carries the mutation base of
\* the statement and the index of position base, and a probe built from a
\* minus-strand transcript carries the reverse complement of the mutation
\* base of the statement and the index of position base - 2.
C13_MutationPerStrand ==
    \A i \in 1..Len(probes) :
        \A k \in 1..Len(transcripts) :
            (probes[i].transcript = transcripts[k].name) =>
                IF transcripts[k].plus_strand
                THEN /\ probes[i].mutation = statement[4]
                     /\ probes[i].index =
                            nucleotide_index(transcripts[k], statement[2]).val
                ELSE /\ probes[i].mutation = reverse_complement(statement[4])
                     /\ probes[i].index =
                            nucleotide_index(transcripts[k], statement[2] - 2).val

\* The values a side field stands for.
SideValues(side) == IF side = "*" THEN {"start", "end"} ELSE {side}

\* The values a feature field stands for, given the count of its row.
FeatureValues(feature, count) ==
    IF feature[2].glob
    THEN {<<feature[1], Number(i)>> : i \in 1..count.n}
    ELSE {feature}

\* The Cartesian product over the wildcard axes of the specification.
Combinations(spec, counts) ==
    {[spec EXCEPT !.side1 = s1, !.side2 = s2,
                  !.feature1 = f1, !.feature2 = f2] :
        s1 \in SideValues(spec.side1), s2 \in SideValues(spec.side2),
        f1 \in FeatureValues(spec.feature1, counts[1]),
        f2 \in FeatureValues(spec.feature2, counts[2])}

Yielded == {result.val[k] : k \in 1..Len(result.val)}

\* What expand yielded is the product over the wildcard axes, each
\* combination once.
YieldsProduct ==
    (pc = "done" /\ result.kind = "ok") =>
        /\ Yielded = Combinations(specification, feature_counts)
        /\ Len(result.val) = Cardinality(Yielded)
        /\ (/\ specification.side1 # "*" /\ specification.side2 # "*"
            /\ ~specification.feature1[2].glob
            /\ ~specification.feature2[2].glob) =>
               result.val = <<specification>>

\* The call leaves the specification it was given as it is.
InputUnchanged == (pc = "call" /\ pc' = "done") => specification' = specification

\* C12: expand yields exactly the Cartesian product over the wildcard axes
\* present, each combination once: a wildcard side stands for start and end,
\* a wildcard feature index for 1..feature_count inclusive, a specification
\* without wildcard yields itself alone; and the input is left unchanged.
C12_ExpandProduct == [] YieldsProduct /\ [][InputUnchanged]_vars

\* Wildcard feature indexes with counts 2 and 3: the 6 pairs; wildcard
\* sides: the 4 pairs.
C12_Witness ==
    /\ pc = "done" /\ result.kind = "ok"
    /\ specification.feature1[2].glob /\ specification.feature2[2].glob
    /\ specification.side1 = "*" /\ specification.side2 = "*"
    /\ feature_counts = <<Given(2), Given(3)>>
    /\ Cardinality({<<result.val[k].feature1, result.val[k].feature2>> :
                       k \in 1..Len(result.val)}) = 6
    /\ Cardinality({<<result.val[k].side1, result.val[k].side2>> :
                       k \in 1..Len(result.val)}) = 4
    /\ Len(result.val) = 24

=============================================================================
